---- MODULE Spec2Model ----
(* Model of csv-date-remover (src/main.py): one command-line invocation that   *)
(* loads input/<file>, validates its arguments, and either previews (dry run)  *)
(* or deletes the rows whose datetime lies in the inclusive range [start,end]  *)
(* and writes the remainder to results/<file>.                                 *)
EXTENDS Integers, Sequences, FiniteSets, TLC

(* ------------------------------ bounds ---------------------------------- *)
MaxRows == 3          \* longest table of the general specification
MaxTime == 3          \* timestamps are the points 1..MaxTime
MaxPreviewRows == 6   \* longest table of the preview specification

HeadN == 5            \* sample_rows = df_temp[mask].head(5)

Times == 1..MaxTime

(* ------------------------------ values ---------------------------------- *)
(* A cell of the datetime column.  k is the kind of value:                    *)
(*   "str"  text as found in the CSV file, written in format f, denoting v    *)
(*   "nan"  an empty CSV cell (pandas NaN)                                    *)
(*   "ts"   a pandas Timestamp / python datetime at point v                   *)
(*   "nat"  pandas NaT                                                        *)
(*   "none" python None                                                       *)
Str(f, t) == [k |-> "str", f |-> f, v |-> t]
NaN == [k |-> "nan", f |-> "", v |-> 0]
Ts(t) == [k |-> "ts", f |-> "", v |-> t]
NaT == [k |-> "nat", f |-> "", v |-> 0]
None == [k |-> "none", f |-> "", v |-> 0]
Raised == [k |-> "ValueError", f |-> "", v |-> 0]

UserFormat == "%d/%m/%Y"          \* the -f argument of the invocation
IsoFormat == "%Y-%m-%d"           \* the format to_csv writes timestamps in
NotADate == Str("not-a-date", 0)  \* text that matches no format

NoTable == [dtype |-> "none", rows |-> <<>>]
Absent == [exists |-> FALSE, rows |-> <<>>]
File(rows) == [exists |-> TRUE, rows |-> rows]

Min(a, b) == IF a <= b THEN a ELSE b

(* datetime.strptime(date_string, format): the point the text denotes, or a   *)
(* ValueError when the text is not written in that format.                    *)
strptime(s, format) ==
    IF s.k = "str" /\ s.f = format THEN Ts(s.v) ELSE Raised

parse_datetime_default(date_string, format) ==
    LET r == strptime(date_string, format)
    IN IF r = Raised THEN Ts(1) ELSE r

(* parse_datetime: the ValueError is caught and printed, the function then    *)
(* falls off its end and returns None.                                        *)
parse_datetime(date_string, format) ==
    LET r == strptime(date_string, format)
    IN IF r = Raised THEN None ELSE r

(* pd.to_datetime on one element: missing stays missing (NaT), a timestamp is *)
(* kept, text is parsed under the format (errors='raise').                    *)
to_datetime_cell(c, format) ==
    CASE c.k = "nan" -> NaT
      [] c.k = "nat" -> NaT
      [] c.k = "ts" -> c
      [] OTHER -> strptime(c, format)

to_datetime_coerce(rows, format) ==
    [raised |-> FALSE,
     rows |-> [i \in 1..Len(rows) |->
                 LET r == to_datetime_cell(rows[i].dt, format)
                 IN [rows[i] EXCEPT !.dt = IF r = Raised THEN NaT ELSE r]]]

(* pd.to_datetime(series, format=format): the whole call raises when one      *)
(* element cannot be parsed; otherwise a new datetime64 series.               *)
to_datetime(rows, format) ==
    IF \E i \in 1..Len(rows) : to_datetime_cell(rows[i].dt, format) = Raised
    THEN [raised |-> TRUE, rows |-> <<>>]
    ELSE [raised |-> FALSE,
          rows |-> [i \in 1..Len(rows) |->
                      [rows[i] EXCEPT !.dt = to_datetime_cell(rows[i].dt, format)]]]

(* pd.api.types.is_datetime64_any_dtype(df[col]) *)
is_datetime64_any_dtype(df) == df.dtype = "datetime64"

(* pd.read_csv: no parse_dates, so the column keeps its text (dtype object)   *)
read_csv(file) == [dtype |-> "object", rows |-> file.rows]

(* DataFrame.to_csv(index=False): timestamps are written as ISO text, NaT as  *)
(* an empty cell, text as it is.                                              *)
to_csv_cell(c) ==
    CASE c.k = "ts" -> Str(IsoFormat, c.v)
      [] c.k = "nat" -> NaN
      [] OTHER -> c

to_csv(df) ==
    File([i \in 1..Len(df.rows) |->
            [df.rows[i] EXCEPT !.dt = to_csv_cell(df.rows[i].dt)]])

(* series >= d and series <= d, elementwise; a comparison with NaT is False   *)
(* (Gt, the strict form, is used only by dry_run_mask_open_start)            *)
Ge(c, d) == c.k = "ts" /\ c.v >= d.v
Le(c, d) == c.k = "ts" /\ c.v <= d.v
Gt(c, d) == c.k = "ts" /\ c.v > d.v

(* series.min() / series.max(): skip NaT, NaT when nothing is left            *)
series_min(rows) ==
    LET S == {rows[i].dt.v : i \in {j \in 1..Len(rows) : rows[j].dt.k = "ts"}}
    IN IF S = {} THEN NaT ELSE Ts(CHOOSE m \in S : \A x \in S : m <= x)

series_max(rows) ==
    LET S == {rows[i].dt.v : i \in {j \in 1..Len(rows) : rows[j].dt.k = "ts"}}
    IN IF S = {} THEN NaT ELSE Ts(CHOOSE m \in S : \A x \in S : m >= x)

(* df[mask]: the rows whose mask bit is True, in the frame's order            *)
select_first_too(rows, m) ==
    LET F[i \in 0..Len(rows)] ==
          IF i = 0 THEN <<>>
          ELSE IF m[i] \/ i = 1 THEN Append(F[i-1], rows[i]) ELSE F[i-1]
    IN F[Len(rows)]

select(rows, m) ==
    LET F[i \in 0..Len(rows)] ==
          IF i = 0 THEN <<>>
          ELSE IF m[i] THEN Append(F[i-1], rows[i]) ELSE F[i-1]
    IN F[Len(rows)]

(* DataFrame.head(n) *)
head_one_more(rows, n) == SubSeq(rows, 1, Min(n + 1, Len(rows)))

head(rows, n) == SubSeq(rows, 1, Min(n, Len(rows)))

(* mask.sum() *)
mask_sum(m) == Cardinality({i \in 1..Len(m) : m[i]})

(* line 47: mask = ~((col >= start_date) & (col <= end_date)) *)
keep_mask_open_end(rows, start_date, end_date) ==
    [i \in 1..Len(rows) |->
        ~(Ge(rows[i].dt, start_date) /\ Le(rows[i].dt, end_date)
          /\ rows[i].dt.v # end_date.v)]

keep_mask(rows, start_date, end_date) ==
    [i \in 1..Len(rows) |->
        ~(Ge(rows[i].dt, start_date) /\ Le(rows[i].dt, end_date))]

(* lines 139-140: mask = (col >= start_date) & (col <= end_date) *)
dry_run_mask_open_start(rows, start_date, end_date) ==
    [i \in 1..Len(rows) |->
        Gt(rows[i].dt, start_date) /\ Le(rows[i].dt, end_date)]

dry_run_mask(rows, start_date, end_date) ==
    [i \in 1..Len(rows) |->
        Ge(rows[i].dt, start_date) /\ Le(rows[i].dt, end_date)]

(* line 126: start_date > end_date; comparing None raises TypeError           *)
range_check_strict(start_date, end_date) ==
    IF start_date = None \/ end_date = None THEN "TypeError"
    ELSE IF start_date.v > end_date.v + 1 THEN "invalid"
    ELSE "ok"

range_check(start_date, end_date) ==
    IF start_date = None \/ end_date = None THEN "TypeError"
    ELSE IF start_date.v > end_date.v THEN "invalid"
    ELSE "ok"

(* delete_datetime_range(df, datetime_col, start_date, end_date, format):     *)
(* df is the caller's frame after the call (the column assignment of line 44  *)
(* is made on the caller's object), result the returned frame.                *)
delete_datetime_range(df, start_date, end_date, format) ==
    LET convert == ~is_datetime64_any_dtype(df)
        conv == IF convert THEN to_datetime(df.rows, format)
                ELSE [raised |-> FALSE, rows |-> df.rows]
        df1 == [dtype |-> "datetime64", rows |-> conv.rows]
        m == keep_mask(df1.rows, start_date, end_date)
    IN IF conv.raised
       THEN [raised |-> TRUE, df |-> df, mask |-> <<>>, rows_to_delete |-> 0,
             result |-> NoTable, conversions |-> 1]
       ELSE [raised |-> FALSE, df |-> df1, mask |-> m,
             rows_to_delete |-> Len(m) - mask_sum(m),
             result |-> [dtype |-> "datetime64", rows |-> select(df1.rows, m)],
             conversions |-> IF convert THEN 1 ELSE 0]

(* ------------------------------ state ----------------------------------- *)
VARIABLES
    fs,              \* the file system: path -> file
    args,            \* the parsed command line (argparse namespace)
    pc,              \* position of main()
    df,              \* main's df
    df_temp,         \* main's df_temp
    start_date,      \* main's start_date
    end_date,        \* main's end_date
    min_date,        \* main's min_date
    max_date,        \* main's max_date
    mask,            \* the mask last computed (line 47 or lines 139-140)
    mask_computed,   \* a mask has been computed in this invocation
    rows_to_delete,  \* the count printed by line 51 or line 142
    sample_rows,     \* main's sample_rows
    df_filtered,     \* main's df_filtered
    rows_deleted,    \* the count printed by line 166
    conversions,     \* pd.to_datetime calls on the column in this invocation
    written,         \* paths written in this invocation
    stderr,          \* the kind of error reported on stderr, "" when none
    exit_code,       \* -1 while running, then the exit status
    run,             \* 1: first invocation, 2: the same command without --dry-run
    dry_reported     \* what the dry run of invocation 1 reported

vars == <<fs, args, pc, df, df_temp, start_date, end_date, min_date, max_date,
          mask, mask_computed, rows_to_delete, sample_rows, df_filtered,
          rows_deleted, conversions, written, stderr, exit_code, run,
          dry_reported>>

locals == <<df, df_temp, start_date, end_date, min_date, max_date, mask,
            mask_computed, rows_to_delete, sample_rows, df_filtered,
            rows_deleted, conversions, written>>

InputFile == "data.csv"
OtherOutput == "out.csv"
Columns == {"id", "timestamp"}                 \* the schema of the CSV file

InputPath(a) == "input/" \o a.input_file                    \* lines 101, 108
BackupPath(a) == a.input_file \o ".backup"                  \* line 152
OutputFile(a) ==                                            \* line 160
    IF a.output_file # "" THEN a.output_file ELSE a.input_file
OutputPath(a) == "results/" \o OutputFile(a)                \* line 163

Paths == {"input/" \o InputFile, "results/" \o InputFile,
          "results/" \o OtherOutput, InputFile \o ".backup"}

(* ------------------------------ inputs ---------------------------------- *)
(* the tables a CSV file can hold: rows numbered by the id column             *)
TablesOver(cells, n) ==
    UNION {{[i \in 1..len |-> [id |-> i, dt |-> c[i]]] : c \in [1..len -> cells]}
           : len \in 0..n}

Cells == {Str(UserFormat, t) : t \in Times} \cup {NotADate, NaN}
DateArgs == {Str(UserFormat, t) : t \in Times} \cup {NotADate}

PreviewCells == {Str(UserFormat, 1), Str(UserFormat, 2), NaN}
PreviewDateArgs == {Str(UserFormat, 1), Str(UserFormat, 2)}

InitLocals ==
    /\ pc = "check_input"
    /\ df = NoTable /\ df_temp = NoTable
    /\ start_date = None /\ end_date = None
    /\ min_date = None /\ max_date = None
    /\ mask = <<>> /\ mask_computed = FALSE
    /\ rows_to_delete = 0 /\ sample_rows = <<>>
    /\ df_filtered = NoTable /\ rows_deleted = 0
    /\ conversions = 0 /\ written = {}
    /\ stderr = "" /\ exit_code = -1
    /\ run = 1 /\ dry_reported = 0

InitFs(files) ==
    \E f \in files :
        fs = [p \in Paths |-> IF p = "input/" \o InputFile THEN f ELSE Absent]

Init ==
    /\ InitFs({File(t) : t \in TablesOver(Cells, MaxRows)} \cup {Absent})
    /\ args \in [input_file : {InputFile},
                 datetime_column : {"timestamp", "date_col"},
                 datetime_format : {UserFormat},
                 start_date : DateArgs, end_date : DateArgs,
                 output_file : {"", OtherOutput},
                 dry_run : BOOLEAN, backup : BOOLEAN]
    /\ InitLocals

InitPreview ==
    /\ InitFs({File(t) : t \in TablesOver(PreviewCells, MaxPreviewRows)})
    /\ args \in [input_file : {InputFile},
                 datetime_column : {"timestamp"},
                 datetime_format : {UserFormat},
                 start_date : PreviewDateArgs, end_date : PreviewDateArgs,
                 output_file : {""},
                 dry_run : BOOLEAN, backup : {FALSE}]
    /\ InitLocals

(* ------------------------------ main() ---------------------------------- *)
(* sys.exit(1) after a message on stderr; also the except-Exception handler   *)
Fail(kind) ==
    /\ pc' = "done" /\ exit_code' = 1 /\ stderr' = kind

(* lines 100-103 *)
CheckInputFile ==
    /\ pc = "check_input"
    /\ IF ~fs[InputPath(args)].exists
       THEN Fail("InputFileNotFound")
       ELSE pc' = "load" /\ UNCHANGED <<exit_code, stderr>>
    /\ UNCHANGED <<fs, args, locals, run, dry_reported>>

(* lines 106-109 *)
LoadData ==
    /\ pc = "load"
    /\ df' = read_csv(fs[InputPath(args)])
    /\ pc' = "check_column"
    /\ UNCHANGED <<fs, args, df_temp, start_date, end_date, min_date, max_date,
                   mask, mask_computed, rows_to_delete, sample_rows,
                   df_filtered, rows_deleted, conversions, written, stderr,
                   exit_code, run, dry_reported>>

(* lines 111-115 *)
CheckColumn ==
    /\ pc = "check_column"
    /\ IF args.datetime_column \notin Columns
       THEN Fail("ColumnNotFound")
       ELSE pc' = "parse_args" /\ UNCHANGED <<exit_code, stderr>>
    /\ UNCHANGED <<fs, args, locals, run, dry_reported>>

(* lines 117-123: parse_datetime never raises, so the except is never taken   *)
ParseArgs ==
    /\ pc = "parse_args"
    /\ start_date' = parse_datetime(args.start_date, args.datetime_format)
    /\ end_date' = parse_datetime(args.end_date, args.datetime_format)
    /\ pc' = "validate_range"
    /\ UNCHANGED <<fs, args, df, df_temp, min_date, max_date, mask,
                   mask_computed, rows_to_delete, sample_rows, df_filtered,
                   rows_deleted, conversions, written, stderr, exit_code, run,
                   dry_reported>>

(* lines 125-128; a TypeError of the comparison reaches line 168 *)
ValidateRange ==
    /\ pc = "validate_range"
    /\ LET r == range_check(start_date, end_date)
       IN CASE r = "TypeError" -> Fail("TypeError")
            [] r = "invalid" -> Fail("InvalidRange")
            [] OTHER -> pc' = "show_range" /\ UNCHANGED <<exit_code, stderr>>
    /\ UNCHANGED <<fs, args, locals, run, dry_reported>>

(* lines 130-135; a ValueError of pd.to_datetime reaches line 168 *)
ShowRange ==
    /\ pc = "show_range"
    /\ LET conv == to_datetime(df.rows, args.datetime_format)
       IN /\ conversions' = conversions + 1
          /\ IF conv.raised
             THEN /\ Fail("ValueError")
                  /\ df_temp' = [dtype |-> df.dtype, rows |-> df.rows]
                  /\ UNCHANGED <<min_date, max_date>>
             ELSE /\ df_temp' = [dtype |-> "datetime64", rows |-> conv.rows]
                  /\ min_date' = series_min(conv.rows)
                  /\ max_date' = series_max(conv.rows)
                  /\ pc' = IF args.dry_run THEN "dry_run" ELSE "backup"
                  /\ UNCHANGED <<exit_code, stderr>>
    /\ UNCHANGED <<fs, args, df, start_date, end_date, mask, mask_computed,
                   rows_to_delete, sample_rows, df_filtered, rows_deleted,
                   written, run, dry_reported>>

(* lines 137-148 *)
DryRun ==
    /\ pc = "dry_run"
    /\ LET m == dry_run_mask(df_temp.rows, start_date, end_date)
       IN /\ mask' = m
          /\ mask_computed' = TRUE
          /\ rows_to_delete' = mask_sum(m)
          /\ sample_rows' = IF mask_sum(m) > 0
                            THEN head(select(df_temp.rows, m), HeadN)
                            ELSE sample_rows
    /\ pc' = "done" /\ exit_code' = 0
    /\ UNCHANGED <<fs, args, df, df_temp, start_date, end_date, min_date,
                   max_date, df_filtered, rows_deleted, conversions, written,
                   stderr, run, dry_reported>>

(* lines 150-154 *)
CreateBackup ==
    /\ pc = "backup"
    /\ IF args.backup
       THEN /\ fs' = [fs EXCEPT ![BackupPath(args)] = to_csv(df)]
            /\ written' = written \cup {BackupPath(args)}
       ELSE UNCHANGED <<fs, written>>
    /\ pc' = "delete"
    /\ UNCHANGED <<args, df, df_temp, start_date, end_date, min_date, max_date,
                   mask, mask_computed, rows_to_delete, sample_rows,
                   df_filtered, rows_deleted, conversions, stderr, exit_code,
                   run, dry_reported>>

(* lines 156-157 *)
DeleteRows ==
    /\ pc = "delete"
    /\ LET r == delete_datetime_range(df, start_date, end_date,
                                      args.datetime_format)
       IN /\ df' = r.df
          /\ conversions' = conversions + r.conversions
          /\ IF r.raised
             THEN /\ Fail("ValueError")
                  /\ UNCHANGED <<mask, mask_computed, rows_to_delete,
                                 df_filtered>>
             ELSE /\ mask' = r.mask
                  /\ mask_computed' = TRUE
                  /\ rows_to_delete' = r.rows_to_delete
                  /\ df_filtered' = r.result
                  /\ pc' = "save"
                  /\ UNCHANGED <<exit_code, stderr>>
    /\ UNCHANGED <<fs, args, df_temp, start_date, end_date, min_date, max_date,
                   sample_rows, rows_deleted, written, run, dry_reported>>

(* lines 159-166 *)
Save ==
    /\ pc = "save"
    /\ fs' = [fs EXCEPT ![OutputPath(args)] = to_csv(df_filtered)]
    /\ written' = written \cup {OutputPath(args)}
    /\ rows_deleted' = Len(df.rows) - Len(df_filtered.rows)
    /\ pc' = "done" /\ exit_code' = 0
    /\ UNCHANGED <<args, df, df_temp, start_date, end_date, min_date, max_date,
                   mask, mask_computed, rows_to_delete, sample_rows,
                   df_filtered, conversions, stderr, run, dry_reported>>

(* The user, after a successful dry run, issues the same command again        *)
(* without --dry-run: a fresh process over the same file system.              *)
Reinvoke ==
    /\ pc = "done" /\ run = 1 /\ args.dry_run /\ exit_code = 0
    /\ run' = 2
    /\ dry_reported' = rows_to_delete
    /\ args' = [args EXCEPT !.dry_run = FALSE]
    /\ pc' = "check_input"
    /\ df' = NoTable /\ df_temp' = NoTable
    /\ start_date' = None /\ end_date' = None
    /\ min_date' = None /\ max_date' = None
    /\ mask' = <<>> /\ mask_computed' = FALSE
    /\ rows_to_delete' = 0 /\ sample_rows' = <<>>
    /\ df_filtered' = NoTable /\ rows_deleted' = 0
    /\ conversions' = 0 /\ written' = {}
    /\ stderr' = "" /\ exit_code' = -1
    /\ UNCHANGED fs

Next ==
    \/ CheckInputFile
    \/ LoadData
    \/ CheckColumn
    \/ ParseArgs
    \/ ValidateRange
    \/ ShowRange
    \/ DryRun
    \/ CreateBackup
    \/ DeleteRows
    \/ Save
    \/ Reinvoke

Spec == Init /\ [][Next]_vars

SpecPreview == InitPreview /\ [][Next]_vars

(* ------------------------------ properties ------------------------------ *)
(* What the invocation was given, read off the file system and the command    *)
(* line rather than off main's variables.                                     *)
OrigRows == fs[InputPath(args)].rows
Parses(s) == s.k = "str" /\ s.f = args.datetime_format
InRangeRaw(c) ==
    /\ Parses(c)
    /\ args.start_date.v <= c.v
    /\ c.v <= args.end_date.v
InRangeIdx == {i \in 1..Len(OrigRows) : InRangeRaw(OrigRows[i].dt)}
KeptIds == {df_filtered.rows[i].id : i \in 1..Len(df_filtered.rows)}
DeletedIds == {df.rows[i].id : i \in {j \in 1..Len(mask) : ~mask[j]}}
HasMalformed ==
    /\ fs[InputPath(args)].exists
    /\ \E i \in 1..Len(OrigRows) :
          OrigRows[i].dt.k = "str" /\ ~Parses(OrigRows[i].dt)
ArgsParse == Parses(args.start_date) /\ Parses(args.end_date)
InvalidRangeInput == ArgsParse /\ args.start_date.v > args.end_date.v
Reachable ==
    fs[InputPath(args)].exists /\ args.datetime_column \in Columns
NoFileWritten ==
    /\ written = {}
    /\ run = 1 => \A p \in Paths \ {InputPath(args)} : ~fs[p].exists

TypeOK ==
    /\ pc \in {"check_input", "load", "check_column", "parse_args",
               "validate_range", "show_range", "dry_run", "backup", "delete",
               "save", "done"}
    /\ exit_code \in {-1, 0, 1}
    /\ written \subseteq Paths

(* C1: once a mask has been computed, a row is marked for deletion exactly    *)
(* when start <= timestamp <= end; in particular the rows whose timestamp is  *)
(* start or end are marked, are counted in the printed count and, on the      *)
(* apply path, are absent from the frame delete_datetime_range returns.       *)
C1_InclusiveRange ==
    mask_computed =>
        /\ Len(mask) = Len(OrigRows)
        /\ \A i \in 1..Len(OrigRows) :
              InRangeRaw(OrigRows[i].dt) <=>
                  (IF args.dry_run THEN mask[i] ELSE ~mask[i])
        /\ rows_to_delete = Cardinality(InRangeIdx)
        /\ ~args.dry_run =>
              /\ \A i \in 1..Len(OrigRows) :
                    InRangeRaw(OrigRows[i].dt) <=> OrigRows[i].id \notin KeptIds
              /\ \A i \in 1..Len(OrigRows) :
                    (Parses(OrigRows[i].dt)
                     /\ OrigRows[i].dt.v \in {args.start_date.v, args.end_date.v})
                        => OrigRows[i].id \notin KeptIds

C1_Witness ==
    /\ mask_computed /\ ~args.dry_run
    /\ args.start_date.v < args.end_date.v
    /\ \E i, j, k \in 1..Len(OrigRows) :
          /\ OrigRows[i].dt = Str(UserFormat, args.start_date.v)
          /\ OrigRows[j].dt = Str(UserFormat, args.end_date.v)
          /\ OrigRows[k].id \in KeptIds
    /\ rows_to_delete = 2

(* C2: the rows kept and the rows deleted by delete_datetime_range partition  *)
(* the original rows, kept count plus deleted count is the original count,    *)
(* and the kept rows are the original rows in their original order.           *)
C2_Partition ==
    (mask_computed /\ ~args.dry_run) =>
        /\ KeptIds \cup DeletedIds = {OrigRows[i].id : i \in 1..Len(OrigRows)}
        /\ KeptIds \cap DeletedIds = {}
        /\ Len(df_filtered.rows) + rows_to_delete = Len(OrigRows)
        /\ Cardinality(KeptIds) = Len(df_filtered.rows)
        /\ \A i, j \in 1..Len(df_filtered.rows) :
              i < j => df_filtered.rows[i].id < df_filtered.rows[j].id
        /\ \A i \in 1..Len(df_filtered.rows) :
              LET r == df_filtered.rows[i]
              IN r.dt = IF OrigRows[r.id].dt = NaN THEN NaT
                        ELSE Ts(OrigRows[r.id].dt.v)
        /\ pc = "done" => rows_deleted + Len(df_filtered.rows) = Len(OrigRows)

C2_Witness ==
    /\ pc = "done" /\ ~args.dry_run /\ exit_code = 0
    /\ Len(df_filtered.rows) = 2
    /\ rows_deleted = 1
    /\ df_filtered.rows[1].id = 1 /\ df_filtered.rows[2].id = 3

(* C3: a call of delete_datetime_range leaves every value of the caller's     *)
(* table as it was before the call.                                           *)
C3_CallerTableUntouched == [][pc = "delete" => df' = df]_vars

C5_ParseFailFast ==
    HasMalformed =>
        /\ ~mask_computed
        /\ df_temp.dtype # "datetime64"
        /\ df.dtype # "datetime64"
        /\ df_filtered = NoTable
        /\ NoFileWritten
        /\ pc = "done" => exit_code = 1
        /\ (pc = "done" /\ Reachable /\ ArgsParse /\ ~InvalidRangeInput)
              => stderr = "ValueError"

C5_Witness ==
    /\ pc = "done" /\ stderr = "ValueError" /\ exit_code = 1
    /\ ~args.dry_run /\ args.backup
    /\ \E i, j \in 1..Len(OrigRows) :
          OrigRows[i].dt = NotADate /\ InRangeRaw(OrigRows[j].dt)

(* C6: an invocation with start after end is rejected before any partitioning *)
(* work: no normalization, no mask, no filtered frame, no file written.       *)
C6_InvalidRangeRejected ==
    InvalidRangeInput =>
        /\ ~mask_computed
        /\ conversions = 0
        /\ df_filtered = NoTable
        /\ NoFileWritten
        /\ pc = "done" => exit_code = 1
        /\ (pc = "done" /\ Reachable) => stderr = "InvalidRange"

C6_Witness ==
    /\ pc = "done" /\ stderr = "InvalidRange" /\ exit_code = 1
    /\ args.start_date.v = args.end_date.v + 1
    /\ Len(df.rows) > 0 /\ ~args.dry_run /\ args.backup

(* C7: in an invocation that reached the filtering step the datetime column   *)
(* has been normalized exactly once.                                          *)
C7_NormalizedOnce == mask_computed => conversions = 1

(* C8: a run given a missing input file, an absent column, an unparseable     *)
(* start or end, an unparseable column value or start > end writes no file,   *)
(* and ends reported with exit status 1.                                      *)
ErrorInput ==
    \/ ~fs[InputPath(args)].exists
    \/ args.datetime_column \notin Columns
    \/ ~Parses(args.start_date)
    \/ ~Parses(args.end_date)
    \/ HasMalformed
    \/ InvalidRangeInput

C8_ErrorsExitNonZero ==
    ErrorInput =>
        /\ NoFileWritten
        /\ pc = "done" => (exit_code = 1 /\ stderr # "")

C8_Witness ==
    /\ pc = "done" /\ exit_code = 1 /\ stderr = "TypeError"
    /\ ~args.dry_run /\ args.backup
    /\ ~Parses(args.end_date) /\ Parses(args.start_date)
    /\ Len(df.rows) > 0

(* C9: an apply run without --output-file leaves the kept rows in the file    *)
(* that was read as input.                                                    *)
C9_OverwritesInput ==
    (pc = "done" /\ exit_code = 0 /\ ~args.dry_run /\ args.output_file = "")
        => [i \in 1..Len(OrigRows) |-> OrigRows[i].id]
              = [i \in 1..Len(df_filtered.rows) |-> df_filtered.rows[i].id]

(* C10: the count a dry run reports equals the count the same command         *)
(* without --dry-run deletes (original rows minus rows written), and a        *)
(* missing timestamp is counted by neither.                                   *)
C10_DryRunMatchesApply ==
    /\ (mask_computed /\ args.dry_run) =>
          \A i \in 1..Len(OrigRows) : OrigRows[i].dt = NaN => ~mask[i]
    /\ (run = 2 /\ pc = "done") =>
          /\ exit_code = 0
          /\ rows_deleted = dry_reported
          /\ Len(OrigRows) - Len(fs[OutputPath(args)].rows) = dry_reported
          /\ \A i \in 1..Len(OrigRows) :
                OrigRows[i].dt = NaN =>
                    \E j \in 1..Len(fs[OutputPath(args)].rows) :
                        fs[OutputPath(args)].rows[j] = OrigRows[i]

C10_Witness ==
    /\ run = 2 /\ pc = "done" /\ exit_code = 0
    /\ dry_reported = 1 /\ rows_deleted = 1
    /\ \E i \in 1..Len(OrigRows) : OrigRows[i].dt = NaN
    /\ Len(OrigRows) = 3

====
